---- MODULE Spec2Model ----
(***************************************************************************)
(* Harvard Art Museums Collection Explorer (src/app.py): the SQLite store  *)
(* written by HarvardArtMuseumDB.insert_artifacts and the paginated fetch  *)
(* of HarvardArtAPI.fetch_artifacts.                                       *)
(*                                                                         *)
(* JSON values are tagged tuples, so that values of different Python types *)
(* can be told apart: <<"null">>, <<"num", n>>, <<"str", s>>,               *)
(* <<"list", seq>>, <<"map", f>>.  A raw record (a Python dict) is a        *)
(* function from the keys it holds to JSON values.                         *)
(***************************************************************************)
EXTENDS Integers, Sequences, FiniteSets

VARIABLES
    artifact_metadata,  \* table artifact_metadata: a set of rows, id INTEGER PRIMARY KEY
    artifact_media,     \* table artifact_media: rows in rowid order (no key)
    artifact_colors,    \* table artifact_colors: rows in rowid order (no key)
    inserted,           \* what the last insert_artifacts call returned (-1: nothing returned)
    raised,             \* TRUE when the last insert_artifacts call let an exception escape
    outcomes,           \* per record of the last batch: "inserted", "dberror", "raised", "skipped"
    calls,              \* history: the batches passed to insert_artifacts, with how each call ended
    prev,               \* the three tables as they were when the last call started
    pc,                 \* fetch_artifacts: "idle", "loop" (between page requests), "done"
    limit,              \* fetch_artifacts: its limit argument
    page,               \* fetch_artifacts: the next page number to request
    all_artifacts,      \* fetch_artifacts: the records accumulated so far
    artifacts,          \* what the last fetch_artifacts call returned
    collected_data,     \* st.session_state.collected_data (<<>>: not set)
    requested,          \* history: the page numbers requested by the current fetch
    responses,          \* history: what the catalog answered to each request
    query,              \* execute_query: the statement of the last call (NoQuery: none yet)
    result,             \* execute_query: the DataFrame the last call returned
    st_error,           \* execute_query: TRUE when the last call reported through st.error
    before,             \* the three tables as they were when the last execute_query started
    runs,               \* two concurrent insert_artifacts calls: per run, its position and transaction
    lock,               \* the run whose connection holds the database's write lock (0: none)
    log                 \* history: the run of each statement that wrote, in the order they wrote

dbVars == <<artifact_metadata, artifact_media, artifact_colors, inserted, raised,
            outcomes, calls, prev>>
fetchVars == <<pc, limit, page, all_artifacts, artifacts, requested, responses>>
queryVars == <<query, result, st_error, before>>
runVars == <<runs, lock, log>>
vars == <<dbVars, fetchVars, collected_data, queryVars, runVars>>

-----------------------------------------------------------------------------
(* Bounds *)

\* Records passed to insert_artifacts, summed over all calls of a behaviour of Spec.
MaxRecords == 3
\* The largest limit argument tried for fetch_artifacts.
MaxLimit == 5
\* The page size fetch_artifacts asks for, and the most records the catalog puts
\* in one page (100 in the source, scaled down).
size == 2

-----------------------------------------------------------------------------
(* JSON values and Python dict access *)

JNull == <<"null">>
JNum(n) == <<"num", n>>
JStr(s) == <<"str", s>>
JList(s) == <<"list", s>>
JMap(f) == <<"map", f>>

\* dict.get(key): None when the key is absent.
Get(d, k) == IF k \in DOMAIN d THEN d[k] ELSE JNull

\* dict.get(key, default)
GetDefault(d, k, default) == IF k \in DOMAIN d THEN d[k] ELSE default

\* Python truthiness, as used by `if artifact.get('colors')`.
Truthy(v) ==
    CASE v[1] = "null" -> FALSE
      [] v[1] = "num" -> v[2] # 0
      [] v[1] = "str" -> v[2] # ""
      [] v[1] = "list" -> Len(v[2]) > 0
      [] OTHER -> DOMAIN v[2] # {}

\* The values the sqlite3 module can bind to a "?": None, int/float, str.
\* A list or a dict raises sqlite3.ProgrammingError (InterfaceError before
\* Python 3.11), both subclasses of sqlite3.Error, before the statement runs.
Bindable(v) == v[1] \in {"null", "num", "str"}

Max(S) == CHOOSE m \in S : \A x \in S : x <= m

-----------------------------------------------------------------------------
(* Schema *)

MetaColumns == {"title", "culture", "period", "century", "medium", "dimensions",
                "description", "department", "classification", "accessionyear",
                "accessionmethod"}
MediaColumns == {"imagecount", "mediacount", "colorcount", "rank", "datebegin", "dateend"}
ColorColumns == {"color", "spectrum", "hue", "percent", "css3"}

\* The state create_tables leaves on a new database file.
EmptyDB == [metadata |-> {}, media |-> <<>>, colors |-> <<>>]

DB == [metadata |-> artifact_metadata, media |-> artifact_media, colors |-> artifact_colors]

-----------------------------------------------------------------------------
(* insert_artifacts: the three statements run for one record *)

\* The rowid SQLite gives a row inserted with a NULL INTEGER PRIMARY KEY.
NewRowId(tbl) == IF tbl = {} THEN 1 ELSE Max({r.id : r \in tbl}) + 1

MetadataRow(a, id) == [id |-> id, cols |-> [c \in MetaColumns |-> Get(a, c)]]

\* INSERT OR IGNORE in place of INSERT OR REPLACE: a stored id keeps its old row.
InsertMetadataOrIgnore(tbl, a) ==
    LET idv == Get(a, "id")
    IN  IF ~Bindable(idv) \/ (\E c \in MetaColumns : ~Bindable(Get(a, c))) \/ idv[1] = "str"
        THEN [ok |-> FALSE, tbl |-> tbl]
        ELSE LET id == IF idv[1] = "null" THEN NewRowId(tbl) ELSE idv[2]
             IN  [ok |-> TRUE,
                  tbl |-> IF \E r \in tbl : r.id = id THEN tbl
                          ELSE tbl \cup {MetadataRow(a, id)}]

\* INSERT OR REPLACE INTO artifact_metadata: a row with the same id is replaced
\* whole.  [ok |-> FALSE] is an sqlite3.Error: a parameter that cannot be bound,
\* or a text id (datatype mismatch on the INTEGER PRIMARY KEY).
InsertMetadata(tbl, a) ==
    LET idv == Get(a, "id")
    IN  IF ~Bindable(idv) \/ (\E c \in MetaColumns : ~Bindable(Get(a, c))) \/ idv[1] = "str"
        THEN [ok |-> FALSE, tbl |-> tbl]
        ELSE LET id == IF idv[1] = "null" THEN NewRowId(tbl) ELSE idv[2]
             IN  [ok |-> TRUE,
                  tbl |-> {r \in tbl : r.id # id} \cup {MetadataRow(a, id)}]

\* artifact.get(column) in place of artifact.get(column, 0): an absent counter is NULL.
MediaRowNoDefault(a) ==
    [objectid |-> Get(a, "id"), cols |-> [c \in MediaColumns |-> Get(a, c)]]

MediaRow(a) ==
    [objectid |-> Get(a, "id"), cols |-> [c \in MediaColumns |-> GetDefault(a, c, JNum(0))]]

\* INSERT OR REPLACE INTO artifact_media: the table has no PRIMARY KEY and no
\* UNIQUE column, so there is nothing to conflict with and the row is added.
InsertMedia(tbl, a) ==
    IF ~Bindable(Get(a, "id")) \/ (\E c \in MediaColumns : ~Bindable(GetDefault(a, c, JNum(0))))
    THEN [ok |-> FALSE, tbl |-> tbl]
    ELSE [ok |-> TRUE, tbl |-> Append(tbl, MediaRow(a))]

ColorRow(a, color) ==
    [objectid |-> Get(a, "id"), cols |-> [c \in ColorColumns |-> Get(color[2], c)]]

\* The loop over artifact['colors'] from entry i on.  An entry that is not a
\* mapping has no .get: AttributeError, which is not an sqlite3.Error.
RECURSIVE InsertColors(_, _, _, _)
InsertColors(tbl, a, entries, i) ==
    IF i > Len(entries) THEN [status |-> "inserted", tbl |-> tbl]
    ELSE IF entries[i][1] # "map" THEN [status |-> "raised", tbl |-> tbl]
    ELSE IF ~Bindable(Get(a, "id"))
            \/ (\E c \in ColorColumns : ~Bindable(Get(entries[i][2], c)))
         THEN [status |-> "dberror", tbl |-> tbl]
         ELSE InsertColors(Append(tbl, ColorRow(a, entries[i])), a, entries, i + 1)

\* The body of the try block for one record.  tx is the open transaction's view
\* of the three tables; a statement that fails leaves the earlier statements'
\* rows in it.
ProcessArtifact(tx, a) ==
    LET m == InsertMetadata(tx.metadata, a)
        d == InsertMedia(tx.media, a)
        colors == Get(a, "colors")
        c == InsertColors(tx.colors, a, colors[2], 1)
    IN  IF ~m.ok THEN [status |-> "dberror", tx |-> tx]
        ELSE IF ~d.ok
             THEN [status |-> "dberror", tx |-> [tx EXCEPT !.metadata = m.tbl]]
        ELSE IF ~Truthy(colors)
             THEN [status |-> "inserted",
                   tx |-> [tx EXCEPT !.metadata = m.tbl, !.media = d.tbl]]
        ELSE IF colors[1] # "list"
             THEN [status |-> "raised",
                   tx |-> [tx EXCEPT !.metadata = m.tbl, !.media = d.tbl]]
        ELSE [status |-> c.status,
              tx |-> [metadata |-> m.tbl, media |-> d.tbl, colors |-> c.tbl]]

\* The for loop from record i on: `continue` after an sqlite3.Error, the count
\* raised after a record's last statement, any other exception leaves the loop.
RECURSIVE RunBatch(_, _, _, _, _)
RunBatch(tx, batch, i, count, out) ==
    IF i > Len(batch)
    THEN [tx |-> tx, count |-> count, outcomes |-> out, raised |-> FALSE]
    ELSE LET r == ProcessArtifact(tx, batch[i])
         IN  IF r.status = "raised"
             THEN [tx |-> r.tx, count |-> count, raised |-> TRUE,
                   outcomes |-> out \o <<"raised">>
                                \o [j \in 1..(Len(batch) - i) |-> "skipped"]]
             ELSE RunBatch(r.tx, batch, i + 1,
                           IF r.status = "inserted" THEN count + 1 ELSE count,
                           Append(out, r.status))

\* insert_artifacts(artifacts_data) on database db.  One connection, one implicit
\* transaction, committed after the loop; when an exception escapes, commit is
\* never reached and the connection is dropped with its transaction rolled back.
insert_artifacts(db, artifacts_data) ==
    LET r == RunBatch(db, artifacts_data, 1, 0, <<>>)
    IN  IF r.raised
        THEN [db |-> db, inserted |-> -1, raised |-> TRUE, outcomes |-> r.outcomes]
        ELSE [db |-> r.tx, inserted |-> r.count, raised |-> FALSE, outcomes |-> r.outcomes]

-----------------------------------------------------------------------------
(* The raw records tried *)

Red == JMap([color |-> JStr("#ff0000"), hue |-> JStr("Red"), percent |-> JNum(1)])
Blue == JMap([color |-> JStr("#0000ff"), spectrum |-> JStr("#2eb45d")])
\* A color entry with a value sqlite3 cannot bind (a list).
Unbindable == JMap([color |-> JList(<<>>), hue |-> JStr("Grey")])
\* A colors entry that is not a mapping.
NotAMapping == JStr("#00ff00")

Artifacts ==
    { [id |-> JNum(1), title |-> JStr("a"), accessionyear |-> JNum(1900),
       imagecount |-> JNum(2), colors |-> JList(<<Red>>)],
      [id |-> JNum(1), title |-> JStr("b"), culture |-> JStr("c")],
      [id |-> JNum(1)],
      [id |-> JNum(2), title |-> JStr("a"), rank |-> JNum(7), colors |-> JList(<<Red, Blue>>)],
      [id |-> JNum(2), title |-> JStr("b"), colors |-> JList(<<>>)],
      [title |-> JStr("a"), colors |-> JList(<<Blue>>)],
      [id |-> JNum(1), title |-> JStr("b"), imagecount |-> JList(<<>>)],
      [id |-> JNum(2), title |-> JList(<<>>)],
      [id |-> JNum(2), title |-> JStr("b"), colors |-> JList(<<Red, Unbindable, Blue>>)],
      [id |-> JNum(1), title |-> JStr("a"), colors |-> JList(<<Red, NotAMapping>>)] }

Batches(n) == UNION {[1..k -> Artifacts] : k \in 1..n}

RECURSIVE SumLen(_)
SumLen(s) == IF s = <<>> THEN 0 ELSE Len(Head(s).batch) + SumLen(Tail(s))

-----------------------------------------------------------------------------
(* execute_query *)

\* Records stored, over all calls, before the queries of a behaviour of SpecQuery.
MaxStored == 2

\* A DataFrame: its column labels and its rows.  pd.DataFrame() has neither.
EmptyFrame == [columns |-> <<>>, rows |-> <<>>]

\* The statements tried.
NoQuery == [kind |-> "none", id |-> 0]
\* SELECT id, title FROM artifact_metadata WHERE id = <id>
Select(id) == [kind |-> "select", id |-> id]
\* SELEC id FROM artifact_metadata
Misspelt == [kind |-> "syntax", id |-> 0]
\* DELETE FROM artifact_colors
Delete == [kind |-> "delete", id |-> 0]
\* WITH t AS (SELECT 1) DELETE FROM artifact_colors
WithDelete == [kind |-> "with_delete", id |-> 0]

Queries == {Select(id) : id \in 1..3} \cup {Misspelt, Delete, WithDelete}

\* The statements that are not valid read queries.
NotARead(q) == q.kind \in {"syntax", "delete", "with_delete"}

\* The rows of artifact_metadata with the given id (at most one: id is the key).
SelectRows(tbl, id) ==
    IF \E r \in tbl : r.id = id
    THEN LET r == CHOOSE r \in tbl : r.id = id
         IN  <<[id |-> r.id, title |-> r.cols["title"]]>>
    ELSE <<>>

\* cursor.execute(q) on the new connection, as pd.read_sql_query runs it.
\*   ok:        the statement raised nothing;
\*   described: cursor.description is not None (the statement returns rows);
\*   open:      the sqlite3 module began a transaction before the statement,
\*              which it does when the statement's first word is INSERT, UPDATE,
\*              DELETE or REPLACE; any other statement runs in autocommit mode;
\*   db:        the tables as the connection sees them after the statement.
Execute(db, q) ==
    CASE q.kind = "select" ->
           [ok |-> TRUE, described |-> TRUE, open |-> FALSE, db |-> db,
            columns |-> <<"id", "title">>, rows |-> SelectRows(db.metadata, q.id)]
      [] q.kind = "syntax" ->
           [ok |-> FALSE, described |-> FALSE, open |-> FALSE, db |-> db,
            columns |-> <<>>, rows |-> <<>>]
      [] q.kind = "delete" ->
           [ok |-> TRUE, described |-> FALSE, open |-> TRUE,
            db |-> [db EXCEPT !.colors = <<>>], columns |-> <<>>, rows |-> <<>>]
      [] OTHER ->
           [ok |-> TRUE, described |-> FALSE, open |-> FALSE,
            db |-> [db EXCEPT !.colors = <<>>], columns |-> <<>>, rows |-> <<>>]

\* execute_query(query) on database db.  read_sql_query builds the frame from
\* cursor.description and the rows; with no description it raises TypeError.
\* Every exception is caught: st.error, and pd.DataFrame() is returned.
\* conn.close() in the finally clause, never a commit: a transaction left open
\* is rolled back, what ran in autocommit mode stays.
execute_query(db, q) ==
    LET e == Execute(db, q)
        closed == IF e.open THEN db ELSE e.db
    IN  IF e.ok /\ e.described
        THEN [db |-> closed, st_error |-> FALSE,
              result |-> [columns |-> e.columns, rows |-> e.rows]]
        ELSE [db |-> closed, st_error |-> TRUE, result |-> EmptyFrame]

-----------------------------------------------------------------------------
(* Two insert_artifacts calls at the same time *)

\* Records in the batch of each of the two concurrent calls.
MaxRunRecords == 2

Runs == {1, 2}

\* The records the two calls are given: all of them carry object id 1.
RunArtifacts ==
    { [id |-> JNum(1), title |-> JStr("a"), accessionyear |-> JNum(1900),
       imagecount |-> JNum(2), colors |-> JList(<<Red>>)],
      [id |-> JNum(1), title |-> JStr("b"), culture |-> JStr("c")],
      [id |-> JNum(1), title |-> JStr("a"), colors |-> JList(<<Red, NotAMapping>>)] }

RunBatches == UNION {[1..k -> RunArtifacts] : k \in 1..MaxRunRecords}

\* A call that has not started (or whose connection is gone).
IdleRun == [pc |-> "idle", batch |-> <<>>, i |-> 1, s |-> "metadata", k |-> 1,
            tx |-> EmptyDB, count |-> 0]

\* Every call opens a connection of its own (sqlite3.connect), and SQLite lets
\* one connection at a time hold the write lock of the database file.
LockAlwaysFree(r) == TRUE

\* The connection of run r can write: no other connection holds the write lock.
LockFree(r) == lock \in {0, r}

\* What the statement run is at does to tx, the tables as its connection sees
\* them: "wrote", "dberror" (an sqlite3.Error raised while binding), "raised"
\* (an exception that is not an sqlite3.Error).  None of the records tried has
\* a text id, the one failure raised by the engine itself.
Statement(run, tx) ==
    LET a == run.batch[run.i]
        colors == Get(a, "colors")
    IN  CASE run.s = "metadata" ->
               LET m == InsertMetadata(tx.metadata, a)
               IN  IF m.ok THEN [status |-> "wrote", tx |-> [tx EXCEPT !.metadata = m.tbl]]
                   ELSE [status |-> "dberror", tx |-> tx]
          [] run.s = "media" ->
               LET d == InsertMedia(tx.media, a)
               IN  IF d.ok THEN [status |-> "wrote", tx |-> [tx EXCEPT !.media = d.tbl]]
                   ELSE [status |-> "dberror", tx |-> tx]
          [] OTHER ->
               IF colors[1] # "list" THEN [status |-> "raised", tx |-> tx]
               ELSE LET c == InsertColors(tx.colors, a, <<colors[2][run.k]>>, 1)
                    IN  IF c.status = "inserted"
                        THEN [status |-> "wrote", tx |-> [tx EXCEPT !.colors = c.tbl]]
                        ELSE [status |-> c.status, tx |-> tx]

\* The run goes to its next record: after the record's last statement
\* (inserted_count += 1) or by `continue` after an sqlite3.Error.
NextRecord(run, counted) ==
    [run EXCEPT !.i = run.i + 1, !.s = "metadata", !.k = 1,
                !.count = IF counted THEN run.count + 1 ELSE run.count]

\* Where the run is after a statement that wrote.
AfterWrite(run) ==
    LET colors == Get(run.batch[run.i], "colors")
    IN  CASE run.s = "metadata" -> [run EXCEPT !.s = "media"]
          [] run.s = "media" ->
               IF Truthy(colors) THEN [run EXCEPT !.s = "colors", !.k = 1]
               ELSE NextRecord(run, TRUE)
          [] OTHER ->
               IF run.k < Len(colors[2]) THEN [run EXCEPT !.k = run.k + 1]
               ELSE NextRecord(run, TRUE)

\* The write order, kept as the runs that wrote, a run named once for each
\* unbroken stretch of its statements.
Logged(r) == IF log # <<>> /\ log[Len(log)] = r THEN log ELSE Append(log, r)

-----------------------------------------------------------------------------
(* Actions *)

Init ==
    /\ artifact_metadata = {}
    /\ artifact_media = <<>>
    /\ artifact_colors = <<>>
    /\ inserted = -1
    /\ raised = FALSE
    /\ outcomes = <<>>
    /\ calls = <<>>
    /\ prev = EmptyDB
    /\ pc = "idle"
    /\ limit = 0
    /\ page = 1
    /\ all_artifacts = <<>>
    /\ artifacts = <<>>
    /\ collected_data = <<>>
    /\ requested = <<>>
    /\ responses = <<>>
    /\ query = NoQuery
    /\ result = EmptyFrame
    /\ st_error = FALSE
    /\ before = EmptyDB
    /\ runs = [r \in Runs |-> IdleRun]
    /\ lock = 0
    /\ log = <<>>

\* db.insert_artifacts(batch), the whole call.
InsertArtifactsCall(batch) ==
    LET r == insert_artifacts(DB, batch)
    IN  /\ artifact_metadata' = r.db.metadata
        /\ artifact_media' = r.db.media
        /\ artifact_colors' = r.db.colors
        /\ inserted' = r.inserted
        /\ raised' = r.raised
        /\ outcomes' = r.outcomes
        /\ calls' = Append(calls, [batch |-> batch, raised |-> r.raised])
        /\ prev' = DB

\* A caller passes some batch of raw records.
Insert ==
    /\ \E batch \in Batches(MaxRecords - SumLen(calls)) : InsertArtifactsCall(batch)
    /\ UNCHANGED <<fetchVars, collected_data, queryVars, runVars>>

-----------------------------------------------------------------------------
(* fetch_artifacts *)

Min(a, b) == IF a <= b THEN a ELSE b

\* return all_artifacts, the slice forgotten.
SliceAll(s, n) == s

\* Python's s[:n]: the first n elements, or all but the last -n when n < 0.
SliceTo(s, n) ==
    IF n >= 0 THEN SubSeq(s, 1, Min(n, Len(s)))
    ELSE SubSeq(s, 1, IF Len(s) + n > 0 THEN Len(s) + n ELSE 0)

\* The catalog's i-th record of page p: the catalog assigns every object its own id.
CatalogRecord(p, i) ==
    IF i = 1
    THEN [id |-> JNum((p - 1) * size + i), title |-> JStr("t"), colors |-> JList(<<Red>>)]
    ELSE [id |-> JNum((p - 1) * size + i), title |-> JStr("t"), imagecount |-> JNum(i)]

\* data['records'] of a page p that holds n records.
CatalogPage(p, n) == [i \in 1..n |-> CatalogRecord(p, i)]

\* Leaving the while loop: the slice is returned, and the Collect Data handler
\* keeps a non-empty result in the session state.
Return(all) ==
    /\ pc' = "done"
    /\ artifacts' = SliceTo(all, limit)
    /\ collected_data' = IF SliceTo(all, limit) # <<>> THEN SliceTo(all, limit)
                         ELSE collected_data

Request(kind, n) ==
    /\ requested' = Append(requested, page)
    /\ responses' = Append(responses, [kind |-> kind, n |-> n])

\* The Collect Data button: fetch_artifacts(classification, l) up to its first
\* page request.
FetchArtifacts(l) ==
    /\ pc = "idle"
    /\ limit' = l
    /\ all_artifacts' = <<>>
    /\ page' = 1
    /\ requested' = <<>>
    /\ responses' = <<>>
    /\ IF 0 < l
       THEN pc' = "loop" /\ UNCHANGED <<artifacts, collected_data>>
       ELSE /\ pc' = "done"
            /\ artifacts' = SliceTo(<<>>, l)
            /\ collected_data' = IF SliceTo(<<>>, l) # <<>> THEN SliceTo(<<>>, l)
                                 ELSE collected_data
    /\ UNCHANGED <<dbVars, queryVars, runVars>>

\* page += 1 forgotten: the same page is asked for again.
PageRecordsSamePage(n) ==
    /\ pc = "loop"
    /\ Request("records", n)
    /\ all_artifacts' = all_artifacts \o CatalogPage(page, n)
    /\ page' = page
    /\ IF Len(all_artifacts') < limit
       THEN pc' = "loop" /\ UNCHANGED <<artifacts, collected_data>>
       ELSE Return(all_artifacts')
    /\ UNCHANGED <<queryVars, runVars, dbVars, limit>>

\* One loop iteration: status 200 and n >= 1 records.  The loop condition is
\* then tested again.
PageRecords(n) ==
    /\ pc = "loop"
    /\ Request("records", n)
    /\ all_artifacts' = all_artifacts \o CatalogPage(page, n)
    /\ page' = page + 1
    /\ IF Len(all_artifacts') < limit
       THEN pc' = "loop" /\ UNCHANGED <<artifacts, collected_data>>
       ELSE Return(all_artifacts')
    /\ UNCHANGED <<queryVars, runVars, dbVars, limit>>

\* An empty page taken as one more page: no break, the next page is asked for.
PageEmptyGoesOn ==
    /\ pc = "loop"
    /\ Request("empty", 0)
    /\ page' = page + 1
    /\ UNCHANGED <<queryVars, runVars, dbVars, limit, all_artifacts, pc, artifacts, collected_data>>

\* One loop iteration: status 200 and no 'records' (absent or empty): break.
PageEmpty ==
    /\ pc = "loop"
    /\ Request("empty", 0)
    /\ Return(all_artifacts)
    /\ UNCHANGED <<queryVars, runVars, dbVars, limit, page, all_artifacts>>

\* One loop iteration: a status other than 200: st.error, break.
PageStatus ==
    /\ pc = "loop"
    /\ Request("status", 0)
    /\ Return(all_artifacts)
    /\ UNCHANGED <<queryVars, runVars, dbVars, limit, page, all_artifacts>>

\* `except requests.RequestException` in place of `except Exception`: the
\* ValueError of response.json() leaves fetch_artifacts.
PageNotJsonEscapes ==
    /\ pc = "loop"
    /\ Request("notjson", 0)
    /\ pc' = "raised"
    /\ UNCHANGED <<queryVars, runVars, dbVars, limit, page, all_artifacts, artifacts, collected_data>>

\* One loop iteration: status 200 and a body response.json() cannot parse; the
\* exception is caught by `except Exception`: st.error, break.
PageNotJson ==
    /\ pc = "loop"
    /\ Request("notjson", 0)
    /\ Return(all_artifacts)
    /\ UNCHANGED <<queryVars, runVars, dbVars, limit, page, all_artifacts>>

\* One loop iteration: requests.get raises; caught by `except Exception`.
PageNetworkError ==
    /\ pc = "loop"
    /\ Request("neterror", 0)
    /\ Return(all_artifacts)
    /\ UNCHANGED <<queryVars, runVars, dbVars, limit, page, all_artifacts>>

\* The Save to Database button, pressed once after a fetch.
SaveToDatabase ==
    /\ pc = "done"
    /\ collected_data # <<>>
    /\ InsertArtifactsCall(collected_data)
    /\ pc' = "saved"
    /\ UNCHANGED <<limit, page, all_artifacts, artifacts, requested, responses, collected_data,
                   queryVars, runVars>>

-----------------------------------------------------------------------------
(* The SQL Queries page *)

\* Data is stored before the queries are run.
Store ==
    /\ query = NoQuery
    /\ \E batch \in Batches(MaxStored - SumLen(calls)) : InsertArtifactsCall(batch)
    /\ UNCHANGED <<fetchVars, collected_data, queryVars, runVars>>

\* db.execute_query(q), the whole call.
ExecuteQueryCall(q) ==
    LET r == execute_query(DB, q)
    IN  /\ query' = q
        /\ result' = r.result
        /\ st_error' = r.st_error
        /\ before' = DB
        /\ artifact_metadata' = r.db.metadata
        /\ artifact_media' = r.db.media
        /\ artifact_colors' = r.db.colors
        /\ UNCHANGED <<inserted, raised, outcomes, calls, prev>>

\* The Run Custom Query button, with some statement typed in.
RunCustomQuery ==
    /\ \E q \in Queries : ExecuteQueryCall(q)
    /\ UNCHANGED <<fetchVars, collected_data, runVars>>

-----------------------------------------------------------------------------
(* Two sessions press Save to Database: insert_artifacts statement by statement *)

\* insert_artifacts(batch) up to its loop: a new connection, inserted_count = 0.
StartRun(r, batch) ==
    /\ runs[r].pc = "idle"
    /\ runs' = [runs EXCEPT ![r] = [IdleRun EXCEPT !.pc = "running", !.batch = batch]]
    /\ UNCHANGED <<dbVars, fetchVars, collected_data, queryVars, lock, log>>

\* The next statement of run r.  A statement that writes takes the write lock,
\* which the run's transaction then keeps until it ends.
RunStatement(r) ==
    LET run == runs[r]
        tx == IF lock = r THEN run.tx ELSE DB
        st == Statement(run, tx)
    IN  /\ run.pc = "running"
        /\ run.i <= Len(run.batch)
        /\ CASE st.status = "wrote" ->
                  /\ LockFree(r)
                  /\ lock' = r
                  /\ log' = Logged(r)
                  /\ runs' = [runs EXCEPT ![r] = [AfterWrite(run) EXCEPT !.tx = st.tx]]
             [] st.status = "dberror" ->
                  /\ runs' = [runs EXCEPT ![r] = NextRecord(run, FALSE)]
                  /\ UNCHANGED <<lock, log>>
             [] OTHER ->
                  /\ runs' = [runs EXCEPT ![r] = [run EXCEPT !.pc = "raised"]]
                  /\ UNCHANGED <<lock, log>>
        /\ UNCHANGED <<dbVars, fetchVars, collected_data, queryVars>>

\* The next statement of run r would write while the other connection holds the
\* write lock, and the connection's timeout runs out: OperationalError
\* "database is locked", an sqlite3.Error: st.error, continue.
StatementLocked(r) ==
    LET run == runs[r]
    IN  /\ run.pc = "running"
        /\ run.i <= Len(run.batch)
        /\ Statement(run, DB).status = "wrote"
        /\ ~LockFree(r)
        /\ runs' = [runs EXCEPT ![r] = NextRecord(run, FALSE)]
        /\ UNCHANGED <<dbVars, fetchVars, collected_data, queryVars, lock, log>>

\* After the loop: conn.commit(), conn.close(), return inserted_count.
Commit(r) ==
    LET run == runs[r]
        db == IF lock = r THEN run.tx ELSE DB
    IN  /\ run.pc = "running"
        /\ run.i > Len(run.batch)
        /\ artifact_metadata' = db.metadata
        /\ artifact_media' = db.media
        /\ artifact_colors' = db.colors
        /\ lock' = IF lock = r THEN 0 ELSE lock
        /\ runs' = [runs EXCEPT ![r] = [run EXCEPT !.pc = "returned", !.tx = EmptyDB]]
        /\ UNCHANGED <<inserted, raised, outcomes, calls, prev, fetchVars, collected_data,
                       queryVars, log>>

\* An exception left insert_artifacts: its connection was neither committed nor
\* closed.  When the connection object is reclaimed its transaction is rolled
\* back and its lock released.
ConnectionDropped(r) ==
    /\ runs[r].pc = "raised"
    /\ lock' = IF lock = r THEN 0 ELSE lock
    /\ runs' = [runs EXCEPT ![r] = [runs[r] EXCEPT !.pc = "dropped", !.tx = EmptyDB]]
    /\ UNCHANGED <<dbVars, fetchVars, collected_data, queryVars, log>>

-----------------------------------------------------------------------------
(* Specifications *)

\* The store under any sequence of insert_artifacts calls.
Next == Insert

Spec == Init /\ [][Next]_vars

\* One run of the pipeline: Collect Data, then Save to Database.
NextFetch ==
    \/ \E l \in 0..MaxLimit : FetchArtifacts(l)
    \/ \E n \in 1..size : PageRecords(n)
    \/ PageEmpty
    \/ PageStatus
    \/ PageNotJson
    \/ PageNetworkError
    \/ SaveToDatabase

SpecFetch == Init /\ [][NextFetch]_vars

\* A page request that is pending gets its answer (of whatever kind).
PageAnswered ==
    \/ \E n \in 1..size : PageRecords(n)
    \/ PageEmpty
    \/ PageStatus
    \/ PageNotJson
    \/ PageNetworkError

\* The pipeline run with every page request answered.
SpecFetchLive == SpecFetch /\ WF_vars(PageAnswered)

\* The SQL Queries page over a store holding a few records.
NextQuery ==
    \/ Store
    \/ RunCustomQuery

SpecQuery == Init /\ [][NextQuery]_vars

\* Two insert_artifacts calls on one database file, statement by statement.
NextRuns ==
    \/ \E r \in Runs : \E batch \in RunBatches : StartRun(r, batch)
    \/ \E r \in Runs : RunStatement(r)
    \/ \E r \in Runs : StatementLocked(r)
    \/ \E r \in Runs : Commit(r)
    \/ \E r \in Runs : ConnectionDropped(r)

SpecRuns == Init /\ [][NextRuns]_vars

-----------------------------------------------------------------------------
(* What the claims speak of *)

\* The record carries an integer identifier.
HasId(a) == "id" \in DOMAIN a /\ a["id"][1] = "num"

\* A colors value every entry of which is a mapping of values SQLite can store.
ValidColors(v) ==
    \/ v[1] = "null"
    \/ /\ v[1] = "list"
       /\ \A i \in 1..Len(v[2]) :
            /\ v[2][i][1] = "map"
            /\ \A c \in ColorColumns : Bindable(Get(v[2][i][2], c))

\* A record none of whose statements can fail: every column value can be stored.
WellFormed(a) ==
    /\ Get(a, "id")[1] \in {"null", "num"}
    /\ \A c \in MetaColumns \cup MediaColumns : Bindable(Get(a, c))
    /\ ValidColors(Get(a, "colors"))

DistinctIds(batch) ==
    /\ \A i \in 1..Len(batch) : HasId(batch[i])
    /\ \A i, j \in 1..Len(batch) : i # j => batch[i]["id"] # batch[j]["id"]

LastBatch == calls[Len(calls)].batch

MediaOf(tbl, oid) == SelectSeq(tbl, LAMBDA r : r.objectid = JNum(oid))

-----------------------------------------------------------------------------
(* C1 *)

\* C1: Insert idempotence.  When a batch of N records with pairwise distinct ids
\* (each of which inserts without error) has been passed to insert_artifacts
\* twice on an empty store, artifact_metadata holds exactly N rows and
\* artifact_colors holds as many rows as after the first call.
C1_InsertIdempotence ==
    ( /\ Len(calls) = 2
      /\ calls[1].batch = calls[2].batch
      /\ DistinctIds(calls[1].batch)
      /\ \A i \in 1..Len(outcomes) : outcomes[i] = "inserted" )
    => /\ Cardinality(artifact_metadata) = Len(calls[1].batch)
       /\ Len(artifact_colors) = Len(prev.colors)

(* C2 *)

\* C2: Referential completeness.  Every row of artifact_colors has an objectid
\* that is the id of some row of artifact_metadata.
C2_ReferentialCompleteness ==
    \A i \in 1..Len(artifact_colors) :
        \E m \in artifact_metadata : artifact_colors[i].objectid = JNum(m.id)

(* C3 *)

\* C3: Media row uniqueness.  artifact_media never holds two rows with the same
\* (non-null) objectid.
C3_MediaRowUniqueness ==
    \A i, j \in 1..Len(artifact_media) :
        (i # j /\ artifact_media[i].objectid[1] = "num")
            => artifact_media[i].objectid # artifact_media[j].objectid

(* C4 *)

\* C4: Partial-failure isolation for a missing identifier.  After a call whose
\* batch holds exactly one record without an id and k well-formed records with
\* distinct ids, the call has returned k, the id-less record is not counted as
\* inserted and has added no row (the tables grew by the rows of the k valid
\* records only), and every valid record has its metadata row.
C4_MissingIdIsolated ==
    ( /\ Len(calls) > 0
      /\ Len(LastBatch) >= 2
      /\ \A i \in 1..Len(LastBatch) : WellFormed(LastBatch[i])
      /\ Cardinality({i \in 1..Len(LastBatch) : ~HasId(LastBatch[i])}) = 1
      /\ \A i, j \in 1..Len(LastBatch) :
             (i # j /\ HasId(LastBatch[i]) /\ HasId(LastBatch[j]))
                 => LastBatch[i]["id"] # LastBatch[j]["id"] )
    => LET k == Len(LastBatch) - 1
       IN  /\ ~raised
           /\ inserted = k
           /\ \A i \in 1..Len(LastBatch) : ~HasId(LastBatch[i]) => outcomes[i] # "inserted"
           /\ Len(artifact_media) = Len(prev.media) + k
           /\ \A i \in 1..Len(LastBatch) :
                  HasId(LastBatch[i])
                      => \E m \in artifact_metadata : JNum(m.id) = LastBatch[i]["id"]

(* C8 *)

ColorsOf(tbl, oid) == SelectSeq(tbl, LAMBDA r : r.objectid = JNum(oid))

NColors(a) == IF Get(a, "colors")[1] = "list" THEN Len(Get(a, "colors")[2]) ELSE 0

\* None of the rows of object oid differs from what the store held before the call.
NoneWritten(oid) ==
    /\ {m \in artifact_metadata : m.id = oid} = {m \in prev.metadata : m.id = oid}
    /\ MediaOf(artifact_media, oid) = MediaOf(prev.media, oid)
    /\ ColorsOf(artifact_colors, oid) = ColorsOf(prev.colors, oid)

\* The metadata row, one more media row and every color row of record a are there.
AllWritten(a, oid) ==
    /\ \E m \in artifact_metadata : m.id = oid /\ \A c \in MetaColumns : m.cols[c] = Get(a, c)
    /\ Len(MediaOf(artifact_media, oid)) = Len(MediaOf(prev.media, oid)) + 1
    /\ Len(ColorsOf(artifact_colors, oid)) = Len(ColorsOf(prev.colors, oid)) + NColors(a)

\* C8: Per-record writes are one logical unit.  After insert_artifacts has
\* returned, for every record of the batch (with an id that no other record of
\* the batch shares) either all of its writes are in the store or none of them is.
C8_PerRecordUnit ==
    (Len(calls) > 0 /\ ~raised /\ DistinctIds(LastBatch))
    => \A i \in 1..Len(LastBatch) :
           \/ AllWritten(LastBatch[i], LastBatch[i]["id"][2])
           \/ NoneWritten(LastBatch[i]["id"][2])

(* C9 *)

\* C9: A failing record does not abort the batch.  After a call in whose batch
\* some record cannot be written, no exception has escaped, no record was
\* skipped, the call has returned the number of records whose writes all
\* succeeded, and every other record with an id has its metadata row.
C9_FailureDoesNotAbort ==
    (Len(calls) > 0 /\ \E i \in 1..Len(LastBatch) : ~WellFormed(LastBatch[i]))
    => /\ ~raised
       /\ \A i \in 1..Len(outcomes) : outcomes[i] # "skipped"
       /\ inserted = Cardinality({i \in 1..Len(LastBatch) : WellFormed(LastBatch[i])})
       /\ \A i \in 1..Len(LastBatch) :
              (WellFormed(LastBatch[i]) /\ HasId(LastBatch[i]))
                  => \E m \in artifact_metadata : JNum(m.id) = LastBatch[i]["id"]

(* C10 *)

\* The records of the calls that committed, in the order they were passed.
RECURSIVE Committed(_)
Committed(cs) ==
    IF cs = <<>> THEN <<>>
    ELSE (IF Head(cs).raised THEN <<>> ELSE Head(cs).batch) \o Committed(Tail(cs))

\* The record's metadata statement can run: an integer or absent id and
\* eleven values SQLite can store.
MetadataStorable(a) ==
    /\ Get(a, "id")[1] \in {"null", "num"}
    /\ \A c \in MetaColumns : Bindable(Get(a, c))

\* The places in history h of the records inserted into artifact_metadata under id oid.
InsertedWithId(h, oid) ==
    {i \in 1..Len(h) : HasId(h[i]) /\ h[i]["id"] = JNum(oid) /\ MetadataStorable(h[i])}

IdsIn(h) == {h[i]["id"][2] : i \in {j \in 1..Len(h) : HasId(h[j])}}

\* C10: Last-write-wins on metadata.  For every id under which records have
\* been inserted (their metadata statement ran in a call that committed),
\* artifact_metadata holds exactly one row with that id, and each of its eleven
\* attributes is the value of the latest such record, NULL where that record
\* has no such attribute.
C10_LastWriteWins ==
    LET h == Committed(calls)
    IN  \A oid \in IdsIn(h) :
            InsertedWithId(h, oid) # {}
            => LET latest == h[Max(InsertedWithId(h, oid))]
                   rows == {m \in artifact_metadata : m.id = oid}
               IN  /\ Cardinality(rows) = 1
                   /\ \A m \in rows : \A c \in MetaColumns :
                          m.cols[c] = IF c \in DOMAIN latest THEN latest[c] ELSE JNull

\* An id was inserted twice, first with a title and an accession year, last
\* without either, and its row now has neither.
C10_Witness ==
    LET h == Committed(calls)
    IN  \E oid \in IdsIn(h) :
            /\ Cardinality(InsertedWithId(h, oid)) >= 2
            /\ \E i \in InsertedWithId(h, oid) :
                   {"title", "accessionyear"} \subseteq DOMAIN h[i]
            /\ DOMAIN h[Max(InsertedWithId(h, oid))] = {"id"}
            /\ \E m \in artifact_metadata :
                   /\ m.id = oid
                   /\ m.cols["title"] = JNull
                   /\ m.cols["accessionyear"] = JNull

-----------------------------------------------------------------------------
(* fetch_artifacts: what the claims speak of *)

\* The records of the catalog's pages 1..k, in page order, as the catalog
\* answered (a response without records adds none).
RECURSIVE Served(_)
Served(k) == IF k = 0 THEN <<>> ELSE Served(k - 1) \o CatalogPage(k, responses[k].n)

\* fetch_artifacts has returned to its caller.
Returned == pc \in {"done", "saved"}

TransportFailures == {"status", "notjson", "neterror"}

(* C5 *)

C6_CappedAndComplete ==
    (Returned /\ \A k \in 1..Len(responses) : responses[k].kind \in {"records", "empty"})
    => LET served == Served(Len(responses))
       IN  /\ Len(artifacts) <= limit
           /\ artifacts = SubSeq(served, 1, Min(limit, Len(served)))
           /\ (Len(responses) > 0 /\ responses[Len(responses)].kind = "records")
                  => Len(artifacts) = limit
           /\ pc = "saved" => (~raised /\ inserted = Len(artifacts))

\* Three full pages with a limit of two and a half pages: the fetch returned
\* limit records and the save returned as many.
C6_Witness ==
    /\ limit = 2 * size + 1
    /\ Len(responses) = 3
    /\ \A k \in 1..3 : responses[k].kind = "records" /\ responses[k].n = size
    /\ pc = "saved"
    /\ Len(artifacts) = limit
    /\ Len(all_artifacts) > limit
    /\ inserted = limit

(* C7 *)

\* C7: Transport failure keeps the partial result.  When the k-th request ended
\* in a status other than 200, a body that is not JSON or a network error, no
\* further request is issued, fetch_artifacts has returned (no exception left
\* it), and the result is the records of pages 1..k-1, cut to limit.
C7_TransportFailureKeepsPartial ==
    \A k \in 1..Len(responses) :
        responses[k].kind \in TransportFailures
        => /\ Len(requested) = k
           /\ Returned
           /\ artifacts = SubSeq(Served(k - 1), 1, Min(limit, Len(Served(k - 1))))

\* A transport failure on the second request, after a page of records,
\* and those records are returned.
C7_Witness ==
    /\ Len(responses) = 2
    /\ responses[1].kind = "records"
    /\ responses[2].kind \in TransportFailures
    /\ Returned
    /\ artifacts = Served(1)
    /\ artifacts # <<>>

-----------------------------------------------------------------------------
(* C11 *)

\* The record's metadata and media statements can both run.
MediaStorable(a) ==
    /\ MetadataStorable(a)
    /\ \A c \in MediaColumns : Bindable(Get(a, c))

\* The places in the last batch of the records that got a media row, in order.
RECURSIVE MediaWriters(_, _)
MediaWriters(batch, i) ==
    IF i > Len(batch) THEN <<>>
    ELSE (IF MediaStorable(batch[i]) THEN <<i>> ELSE <<>>) \o MediaWriters(batch, i + 1)

\* The rows the last call added to artifact_media.
NewMediaRows == SubSeq(artifact_media, Len(prev.media) + 1, Len(artifact_media))

\* C11: Numeric defaulting.  After a call that committed, every record whose
\* media statement ran has its own new artifact_media row, in which each of
\* imagecount, mediacount, colorcount, rank, datebegin and dateend that the raw
\* record lacks is 0 and each one it has is its value; a well-formed record is
\* counted as inserted whatever counters it lacks, and no exception leaves a
\* call whose records are all well-formed.
C11_NumericDefaulting ==
    Len(calls) > 0
    => /\ ~raised
          => LET w == MediaWriters(LastBatch, 1)
             IN  /\ Len(NewMediaRows) = Len(w)
                 /\ \A j \in 1..Len(w) :
                        /\ NewMediaRows[j].objectid = Get(LastBatch[w[j]], "id")
                        /\ \A c \in MediaColumns :
                               NewMediaRows[j].cols[c] =
                                   IF c \in DOMAIN LastBatch[w[j]]
                                   THEN LastBatch[w[j]][c] ELSE JNum(0)
                 /\ \A i \in 1..Len(LastBatch) :
                        WellFormed(LastBatch[i]) => outcomes[i] = "inserted"
       /\ (\A i \in 1..Len(LastBatch) : WellFormed(LastBatch[i])) => ~raised

\* A record with none of the six counters and one with only some of them have
\* been inserted by one call, and their media rows hold 0 for what they lack.
C11_Witness ==
    /\ Len(calls) > 0
    /\ ~raised
    /\ Len(LastBatch) = 2
    /\ DOMAIN LastBatch[1] \cap MediaColumns = {}
    /\ DOMAIN LastBatch[2] \cap MediaColumns = {"rank"}
    /\ outcomes = <<"inserted", "inserted">>
    /\ inserted = 2
    /\ \A c \in MediaColumns : NewMediaRows[1].cols[c] = JNum(0)
    /\ NewMediaRows[2].cols["rank"] = LastBatch[2]["rank"]
    /\ \A c \in MediaColumns \ {"rank"} : NewMediaRows[2].cols[c] = JNum(0)

-----------------------------------------------------------------------------
(* C14 *)

\* C14: Bounded, gap-free pagination.  Whatever the catalog answers, as long as
\* it answers every request: at every moment at most limit page requests have
\* been issued and the pages requested are 1, 2, ..., m in this order; and a
\* fetch that is in its loop eventually returns.
C14_BoundedGapFreePagination ==
    /\ [](/\ Len(requested) <= limit
          /\ requested = [k \in 1..Len(requested) |-> k]
          /\ Returned => page \in {Len(requested), Len(requested) + 1})
    /\ (pc = "loop" ~> Returned)

\* A fetch that needed as many requests as its limit allows (one record a page)
\* has asked for pages 1, 2, 3 and has returned.
C14_Witness ==
    /\ limit = 3
    /\ requested = <<1, 2, 3>>
    /\ \A k \in 1..3 : responses[k].kind = "records" /\ responses[k].n = 1
    /\ Returned
    /\ Len(artifacts) = 3

-----------------------------------------------------------------------------
(* C12 *)

\* A frame a successful query with no matching row returns: columns, no rows.
SuccessfulEmpty(df) == df.columns # <<>> /\ df.rows = <<>>

\* C12: Query outcomes.  After an execute_query call: a valid read query that
\* matched no row reported no error and returned an empty result set; a
\* statement that is misspelt or is not a read reported an error and returned
\* something other than a successful empty result; and in both cases the three
\* tables are as they were before the call.
C12_QueryOutcomes ==
    query # NoQuery =>
        /\ (query.kind = "select" /\ SelectRows(before.metadata, query.id) = <<>>) =>
               /\ ~st_error
               /\ SuccessfulEmpty(result)
               /\ DB = before
        /\ NotARead(query) =>
               /\ st_error
               /\ ~SuccessfulEmpty(result)
               /\ DB = before

-----------------------------------------------------------------------------
(* C13 *)

\* C13: Run-level mutual exclusion.  The statements of the two runs that wrote
\* never interleave: all the writes of one run come before the first write, or
\* after the last write, of the other.
C13_RunsDoNotInterleave ==
    /\ Len(log) <= 2
    /\ Len(log) = 2 => log[1] # log[2]

\* Two calls given records with object id 1 ran at the same time: run 1 wrote
\* and committed; run 2 lost its first record to the lock, wrote its second
\* one after run 1's last write, and committed; its row is the one stored.
C13_Witness ==
    /\ log = <<1, 2>>
    /\ runs[1].pc = "returned"
    /\ runs[1].count = Len(runs[1].batch)
    /\ runs[2].pc = "returned"
    /\ Len(runs[2].batch) = 2
    /\ runs[2].count = 1
    /\ \A r \in Runs : \A i \in 1..Len(runs[r].batch) : Get(runs[r].batch[i], "id") = JNum(1)
    /\ \E row \in artifact_metadata :
           row.id = 1 /\ row.cols["title"] = Get(runs[2].batch[2], "title")
    /\ Len(artifact_media) = 2

====
